---- MODULE Spec2Model ----
(***************************************************************************)
(* The breathing-bubble page (src/src/pages/Index.tsx): one React          *)
(* component with an animation-frame loop, a four-phase breathing timer,   *)
(* a press-and-hold sync score and a particle backdrop.                    *)
(*                                                                         *)
(* Numbers.  JavaScript numbers are modelled as exact rationals <<n, d>>   *)
(* (d > 0, lowest terms), so 0.1, 0.5, t/4 and the easing polynomials are  *)
(* computed as the code writes them, without floating-point rounding.      *)
(* Timestamps are milliseconds, as in the code.                            *)
(***************************************************************************)
EXTENDS Integers, Sequences, FiniteSets, TLC

----------------------------------------------------------------------------
(* Exact rational arithmetic for JavaScript's number operations.           *)

Abs(n) == IF n < 0 THEN -n ELSE n

RECURSIVE GCD(_, _)
GCD(a, b) == IF b = 0 THEN a ELSE GCD(b, a % b)

Norm(n, d) ==
    LET g == GCD(Abs(n), Abs(d))
        s == IF d < 0 THEN -1 ELSE 1
    IN  IF g = 0 THEN <<0, 1>> ELSE <<(s * n) \div g, (s * d) \div g>>

R(n) == <<n, 1>>
Frac(n, d) == Norm(n, d)

RAdd(a, b) == Norm(a[1] * b[2] + b[1] * a[2], a[2] * b[2])
RSub(a, b) == Norm(a[1] * b[2] - b[1] * a[2], a[2] * b[2])
RMul(a, b) == Norm(a[1] * b[1], a[2] * b[2])
RDiv(a, b) == Norm(a[1] * b[2], a[2] * b[1])
RLt(a, b) == a[1] * b[2] < b[1] * a[2]
RLe(a, b) == a[1] * b[2] <= b[1] * a[2]
RGt(a, b) == RLt(b, a)
RMax(a, b) == IF RLt(a, b) THEN b ELSE a
RMin(a, b) == IF RLt(b, a) THEN b ELSE a

\* JavaScript's %: the remainder has the sign of the dividend.
RRem(a, m) ==
    LET A == a[1] * m[2]
        M == Abs(m[1]) * a[2]
        r == Abs(A) % M
    IN  Norm(IF A < 0 THEN -r ELSE r, a[2] * m[2])

\* Math.pow(x, 3)
RCube(a) == RMul(a, RMul(a, a))

\* Math.floor of a rational
RFloor(a) == a[1] \div a[2]

----------------------------------------------------------------------------
(* Program constants.                                                      *)

\* Breathing cycle times (in seconds)
CYCLE == [inhale |-> R(4), hold |-> R(2), exhale |-> R(6), rest |-> R(2)]
\* As TOTAL_CYCLE, leaving the rest out of the sum.
TOTAL_CYCLE_NoRest == RAdd(RAdd(CYCLE.inhale, CYCLE.hold), CYCLE.exhale)
TOTAL_CYCLE == RAdd(RAdd(CYCLE.inhale, CYCLE.hold), RAdd(CYCLE.exhale, CYCLE.rest))

NumParticles == 30
colors == <<"#5FD4D6", "#A78BFA", "#F9A8D4">>

\* the divisor of (timestamp - startTimeRef.current) / 1000
MsPerSecond == 1000

\* useState(100) and the literal 100 of handleStart, handleReset and the clamp
FullScore == R(100)

----------------------------------------------------------------------------
(* Easing functions.                                                       *)

\* As easeInOutCubic, adding the halved cube in the second half.
easeInOutCubic_PlusSign(t) ==
    IF RLt(t, Frac(1, 2))
    THEN RMul(R(4), RCube(t))
    ELSE RAdd(R(1), RDiv(RCube(RAdd(RMul(R(-2), t), R(2))), R(2)))

\* As easeInOutCubic, without halving the cube of the second half.
easeInOutCubic_NoHalf(t) ==
    IF RLt(t, Frac(1, 2))
    THEN RMul(R(4), RCube(t))
    ELSE RSub(R(1), RCube(RAdd(RMul(R(-2), t), R(2))))

easeInOutCubic(t) ==
    IF RLt(t, Frac(1, 2))
    THEN RMul(R(4), RCube(t))
    ELSE RSub(R(1), RDiv(RCube(RAdd(RMul(R(-2), t), R(2))), R(2)))

easeOutQuad(t) ==
    RSub(R(1), RMul(RSub(R(1), t), RSub(R(1), t)))

----------------------------------------------------------------------------
(* Bounds of the model.                                                    *)

\* The coarse clock jumps by JumpSeconds seconds: MaxJumps times in the
\* specification of the whole page, DenseJumps times in the dense-frame one.
JumpSeconds == 4
MaxJumps == 3
DenseJumps == 4
\* The fine clock of the whole-cycle specification runs in one-second steps
\* to LongTime seconds.
LongTime == 15
\* Frame callbacks the browser delivers at one reading of the clock.
MaxFramesPerStep == 1
\* window.innerWidth and window.innerHeight range over 0..MaxDim pixels.
MaxDim == 1
\* Math.random() returns one of k / RandLevels, k in 0..RandLevels-1.
RandLevels == 2
\* The finest clock reads FineDiv times a second, for FineSeconds seconds.
FineDiv == 4
FineSeconds == 5

\* One step of the host clock is one second, in milliseconds.
StepMs == MsPerSecond
FineStepMs == MsPerSecond \div FineDiv
WindowSizes == (0..MaxDim) \X (0..MaxDim)
Minimised == {<<0, 0>>}
Seeds == 0..(RandLevels - 1)

----------------------------------------------------------------------------
(* The timing/phase engine: the body of animate from the elapsed time to   *)
(* the animation parameters.                                               *)

\* Whole milliseconds of a time given in seconds.
Ms(seconds) == (seconds[1] * MsPerSecond) \div seconds[2]

\* elapsed seconds of a frame with this timestamp and this origin (ms)
Elapsed(timestamp, start) == RDiv(R(timestamp - start), R(MsPerSecond))

\* As CycleTime, without the reduction modulo the period.
CycleTime_NoWrap(elapsed) == elapsed

CycleTime(elapsed) == RRem(elapsed, TOTAL_CYCLE)

\* As Before, with the threshold itself inside the window.
Before_Closed(cycleTime, threshold) == RLe(cycleTime, threshold)

\* The threshold test of the phase cascade: cycleTime < threshold.
Before(cycleTime, threshold) == RLt(cycleTime, threshold)

\* currentPhase, phaseProgress, bubbleScale and glowIntensity of a frame
FrameParams(elapsed) ==
    LET cycleTime == CycleTime(elapsed)
        b1 == CYCLE.inhale
        b2 == RAdd(CYCLE.inhale, CYCLE.hold)
        b3 == RAdd(b2, CYCLE.exhale)
    IN  IF Before(cycleTime, b1) THEN
            LET phaseProgress == RDiv(cycleTime, CYCLE.inhale)
                eased == easeInOutCubic(phaseProgress)
            IN  [elapsed |-> elapsed, cycleTime |-> cycleTime,
                 currentPhase |-> "Inhale", phaseProgress |-> phaseProgress,
                 bubbleScale |-> RAdd(R(1), RMul(eased, Frac(1, 2))),
                 glowIntensity |-> RAdd(Frac(1, 2), RMul(eased, Frac(1, 2)))]
        ELSE IF Before(cycleTime, b2) THEN
            [elapsed |-> elapsed, cycleTime |-> cycleTime,
             currentPhase |-> "Hold",
             phaseProgress |-> RDiv(RSub(cycleTime, CYCLE.inhale), CYCLE.hold),
             bubbleScale |-> Frac(3, 2),
             glowIntensity |-> R(1)]
        ELSE IF Before(cycleTime, b3) THEN
            LET phaseProgress == RDiv(RSub(RSub(cycleTime, CYCLE.inhale), CYCLE.hold),
                                      CYCLE.exhale)
                eased == easeOutQuad(phaseProgress)
            IN  [elapsed |-> elapsed, cycleTime |-> cycleTime,
                 currentPhase |-> "Exhale", phaseProgress |-> phaseProgress,
                 bubbleScale |-> RSub(Frac(3, 2), RMul(eased, Frac(1, 2))),
                 glowIntensity |-> RSub(R(1), RMul(eased, Frac(1, 2)))]
        ELSE
            [elapsed |-> elapsed, cycleTime |-> cycleTime,
             currentPhase |-> "Rest",
             phaseProgress |-> RDiv(RSub(RSub(RSub(cycleTime, CYCLE.inhale), CYCLE.hold),
                                         CYCLE.exhale), CYCLE.rest),
             bubbleScale |-> R(1),
             glowIntensity |-> Frac(1, 2)]

----------------------------------------------------------------------------
(* Scoring: the updater handed to setSyncPercentage.                       *)

\* As isCorrectPhase, with Hold left out of the correct window.
isCorrectPhase_InhaleOnly(currentPhase) == currentPhase = "Inhale"

isCorrectPhase(currentPhase) ==
    LET targetPhase == IF currentPhase = "Inhale" THEN "Inhale"
                       ELSE IF currentPhase = "Hold" THEN "Hold"
                       ELSE "None"
    IN  targetPhase = "Inhale" \/ targetPhase = "Hold"

\* As SyncUpdate, taking every phase for a wrong one.
SyncUpdate_AlwaysPenalty(prev, correct) ==
    RMax(R(0), RMin(FullScore, RAdd(prev, RMul(R(-2), Frac(1, 10)))))

\* As SyncUpdate, without the clamp to [0, 100].
SyncUpdate_Unclamped(prev, correct) ==
    RAdd(prev, RMul(IF correct THEN R(1) ELSE R(-2), Frac(1, 10)))

SyncUpdate(prev, correct) ==
    LET adjustment == IF correct THEN R(1) ELSE R(-2)
    IN  RMax(R(0), RMin(FullScore, RAdd(prev, RMul(adjustment, Frac(1, 10)))))

\* As PressedScore, scoring whether or not the pressing flag is set.
PressedScore_Always(pressing, prev, currentPhase) ==
    SyncUpdate(prev, isCorrectPhase(currentPhase))

\* "Calculate sync percentage": only a frame that finds the flag set scores.
PressedScore(pressing, prev, currentPhase) ==
    IF pressing THEN SyncUpdate(prev, isCorrectPhase(currentPhase)) ELSE prev

----------------------------------------------------------------------------
(* Particles.                                                              *)

\* The k-th value Math.random() returns after seeding: a fixed sequence
\* over the RandLevels levels, standing for the generator's stream.
Random(seed, k) == Frac((seed + k + (k \div RandLevels)) % RandLevels, RandLevels)

\* initParticles: seven draws per particle, in the order of the literal.
NewParticle(cv, seed, i) ==
    LET d(j) == Random(seed, 7 * i + j)
    IN  [x     |-> RMul(d(0), R(cv.width)),
         y     |-> RMul(d(1), R(cv.height)),
         vx    |-> RMul(RSub(d(2), Frac(1, 2)), Frac(1, 2)),
         vy    |-> RMul(RSub(d(3), Frac(1, 2)), Frac(1, 2)),
         size  |-> RAdd(RMul(d(4), R(3)), R(1)),
         color |-> colors[RFloor(RMul(d(5), R(Len(colors)))) + 1],
         alpha |-> RAdd(RMul(d(6), Frac(3, 10)), Frac(1, 10))]

initParticles(cv, seed) ==
    [i \in 1..NumParticles |-> NewParticle(cv, seed, i - 1)]

\* As Wrap, without the wrap tests.
Wrap_None(pos, vel, extent) == RAdd(pos, vel)

\* One coordinate of drawParticles: advance, then the two wrap tests in order.
Wrap(pos, vel, extent) ==
    LET moved == RAdd(pos, vel)
        low   == IF RLt(moved, R(0)) THEN R(extent) ELSE moved
    IN  IF RGt(low, R(extent)) THEN R(0) ELSE low

MoveParticle(p, cv) ==
    [p EXCEPT !.x = Wrap(p.x, p.vx, cv.width),
              !.y = Wrap(p.y, p.vy, cv.height)]

\* drawParticles: every particle of the set is updated, none added or removed.
drawParticles(ps, cv) == [i \in DOMAIN ps |-> MoveParticle(ps[i], cv)]

----------------------------------------------------------------------------
(* State.                                                                  *)

VARIABLES
    \* the host
    now,               \* the clock: performance.now() and the frame timestamp (ms)
    framesAtNow,       \* frame callbacks delivered at this reading of the clock
    window,            \* <<innerWidth, innerHeight>>
    canvasOk,          \* the canvas and its 2D context are available
    canvas,            \* [width, height] of the canvas
    drawn,             \* <<>>: blank bitmap; <<f>>: the frame last painted on it
    pendingFrames,     \* requested frame callbacks: [id, active] (active: the
                       \* isActive the callback's closure captured)
    resizeListeners,   \* number of resizeCanvas listeners on the window
    inputListeners,    \* the mouse/touch listeners are registered
    mounted,           \* the component's effects have run
    \* the component
    isActive, phase, syncPercentage,
    animationRef, startTimeRef, isPressingRef, pressStartTimeRef, particlesRef

hostVars == <<now, framesAtNow, window, canvasOk, canvas, drawn, pendingFrames,
              resizeListeners, inputListeners, mounted>>
compVars == <<isActive, phase, syncPercentage, animationRef, startTimeRef,
              isPressingRef, pressStartTimeRef, particlesRef>>
vars == <<hostVars, compVars>>

\* The handle requestAnimationFrame returns: a positive number no pending
\* callback holds.  (Browsers count upwards; only the identity of a handle
\* matters to cancelAnimationFrame, so the least free one is taken.)
NewHandle(pending) ==
    CHOOSE n \in 1..(Cardinality(pending) + 1) : \A f \in pending : f.id # n

\* cancelAnimationFrame(id)
Cancel(pending, id) == {f \in pending : f.id # id}

----------------------------------------------------------------------------
(* Construction: useState / useRef initial values, nothing mounted yet.    *)

InitOn(sizes, surfaces) ==
    /\ now = 0
    /\ framesAtNow = 0
    /\ window \in sizes
    /\ canvasOk \in surfaces
    /\ canvas = [width |-> 300, height |-> 150]   \* an unsized canvas element
    /\ drawn = <<>>
    /\ pendingFrames = {}
    /\ resizeListeners = 0
    /\ inputListeners = FALSE
    /\ mounted = FALSE
    /\ isActive = FALSE
    /\ phase = "Ready"
    /\ syncPercentage = FullScore
    /\ animationRef = 0
    /\ startTimeRef = 0
    /\ isPressingRef = FALSE
    /\ pressStartTimeRef = 0
    /\ particlesRef = <<>>

Init == InitOn(WindowSizes, BOOLEAN)

----------------------------------------------------------------------------
(* The animation effect (lines 87-238).                                    *)

\* resizeCanvas: size the canvas to the window (which blanks its bitmap) and
\* create the particles if there are none.  Yields <<canvas, particles>>.
\* `win` is the window size it reads.

\* As resizeCanvas, creating the particles on every call.
resizeCanvas_AlwaysInit(win, ps, seed) ==
    LET cv == [width |-> win[1], height |-> win[2]]
    IN  <<cv, initParticles(cv, seed)>>

resizeCanvas(win, ps, seed) ==
    LET cv == [width |-> win[1], height |-> win[2]]
    IN  <<cv, IF Len(ps) = 0 THEN initParticles(cv, seed) ELSE ps>>

\* As RunEffect, without the guards on the canvas and its context.
RunEffect_NoGuard(active, pending, listeners, seed) ==
    LET rc == resizeCanvas(window, particlesRef, seed)
        h  == NewHandle(pending)
    IN  /\ canvas' = rc[1]
        /\ drawn' = <<>>
        /\ particlesRef' = rc[2]
        /\ resizeListeners' = listeners + 1
        /\ pendingFrames' = pending \cup {[id |-> h, active |-> active]}
        /\ animationRef' = h

\* The effect body run with isActive = active: size the canvas, listen for
\* resize, request the first frame.  `pending` and `listeners` are what the
\* cleanup of the previous run (if any) left.
RunEffect(active, pending, listeners, seed) ==
    IF ~canvasOk
    THEN /\ UNCHANGED <<canvas, drawn, particlesRef, animationRef>>
         /\ pendingFrames' = pending
         /\ resizeListeners' = listeners
    ELSE LET rc == resizeCanvas(window, particlesRef, seed)
             h  == NewHandle(pending)
         IN  /\ canvas' = rc[1]
             /\ drawn' = <<>>
             /\ particlesRef' = rc[2]
             /\ resizeListeners' = listeners + 1
             /\ pendingFrames' = pending \cup {[id |-> h, active |-> active]}
             /\ animationRef' = h

\* The effect's cleanup, run before the effect runs again: it exists only if
\* the previous run got past its guards.
\* As CleanupPending, cancelling nothing.
CleanupPending_None == pendingFrames

CleanupPending ==
    IF canvasOk /\ animationRef # 0 THEN Cancel(pendingFrames, animationRef)
    ELSE pendingFrames
CleanupListeners ==
    IF canvasOk /\ resizeListeners > 0 THEN resizeListeners - 1 ELSE resizeListeners

\* First commit: both effects run.
Mount ==
    /\ ~mounted
    /\ mounted' = TRUE
    /\ inputListeners' = TRUE
    /\ \E seed \in Seeds : RunEffect(isActive, pendingFrames, resizeListeners, seed)
    /\ UNCHANGED <<now, framesAtNow, window, canvasOk, isActive, phase, syncPercentage,
                   startTimeRef, isPressingRef, pressStartTimeRef>>

\* The component is taken off the page: the cleanups of both effects run
\* (lines 232-237 and 270-274).  React keeps state and refs when it runs the
\* effects again on the same component (as its strict mode does), which is
\* Mount taken after Unmount.
Unmount ==
    /\ mounted
    /\ mounted' = FALSE
    /\ inputListeners' = FALSE
    /\ pendingFrames' = CleanupPending
    /\ resizeListeners' = CleanupListeners
    /\ UNCHANGED <<now, framesAtNow, window, canvasOk, canvas, drawn, compVars>>

----------------------------------------------------------------------------
(* The frame callback.                                                     *)

\* As Origin, never establishing the origin.
Origin_Stale(startRef, timestamp) == startRef

\* The elapsed-time origin a frame works with: established when unset (0).
Origin(startRef, timestamp) == IF startRef = 0 THEN timestamp ELSE startRef

\* animate(timestamp) as the browser runs the pending callback f: the
\* callback leaves the pending list, does its work and re-arms itself.
animate(f, timestamp) ==
    LET h == NewHandle(pendingFrames \ {f})
        rearmed == (pendingFrames \ {f}) \cup {[id |-> h, active |-> f.active]}
    IN
    IF ~f.active
    THEN /\ animationRef' = h
         /\ pendingFrames' = rearmed
         /\ UNCHANGED <<phase, syncPercentage, startTimeRef, particlesRef, drawn>>
    ELSE LET start == Origin(startTimeRef, timestamp)
             fp    == FrameParams(Elapsed(timestamp, start))
         IN  /\ startTimeRef' = start
             /\ phase' = fp.currentPhase
             /\ syncPercentage' = PressedScore(isPressingRef, syncPercentage,
                                                fp.currentPhase)
             /\ particlesRef' = drawParticles(particlesRef, canvas)
             /\ drawn' = <<fp>>
             /\ animationRef' = h
             /\ pendingFrames' = rearmed

\* The browser delivers one pending frame callback, stamped with the clock.
AnimationFrame ==
    /\ \E f \in pendingFrames : animate(f, now)
    /\ UNCHANGED <<now, window, canvasOk, canvas, resizeListeners, inputListeners,
                   mounted, isActive, isPressingRef, pressStartTimeRef>>

\* At most maxFrames callbacks are delivered at one reading of the clock.
Frame(maxFrames) ==
    /\ framesAtNow < maxFrames
    /\ AnimationFrame
    /\ framesAtNow' = framesAtNow + 1

\* Any number of callbacks are delivered at one reading of the clock (frames
\* closer together than the clock resolves); their count is kept modulo 2.
DenseFrame ==
    /\ AnimationFrame
    /\ framesAtNow' = (framesAtNow + 1) % 2

\* The clock advances by step milliseconds, up to limit.
ClockTick(step, limit) ==
    /\ now + step <= limit
    /\ now' = now + step
    /\ framesAtNow' = 0
    /\ UNCHANGED <<window, canvasOk, canvas, drawn, pendingFrames, resizeListeners,
                   inputListeners, mounted, compVars>>

----------------------------------------------------------------------------
(* The controls.  The Start button is rendered while the session is        *)
(* inactive and the Reset button while it is active (lines 327-345).  The  *)
(* state change re-renders the component, and the animation effect, which  *)
(* depends on isActive, is cleaned up and run again in the same commit.    *)

handleStart ==
    /\ mounted /\ ~isActive
    /\ isActive' = TRUE
    /\ startTimeRef' = 0
    /\ syncPercentage' = FullScore
    /\ \E seed \in Seeds : RunEffect(TRUE, CleanupPending, CleanupListeners, seed)
    /\ UNCHANGED <<now, framesAtNow, window, canvasOk, inputListeners, mounted,
                   phase, isPressingRef, pressStartTimeRef>>

\* As handleReset, without clearing the pressing flag.
handleReset_KeepsPress ==
    /\ mounted /\ isActive
    /\ isActive' = FALSE
    /\ startTimeRef' = 0
    /\ phase' = "Ready"
    /\ syncPercentage' = FullScore
    /\ \E seed \in Seeds : RunEffect(FALSE, CleanupPending, CleanupListeners, seed)
    /\ UNCHANGED <<now, framesAtNow, window, canvasOk, inputListeners, mounted,
                   isPressingRef, pressStartTimeRef>>

handleReset ==
    /\ mounted /\ isActive
    /\ isActive' = FALSE
    /\ startTimeRef' = 0
    /\ phase' = "Ready"
    /\ syncPercentage' = FullScore
    /\ isPressingRef' = FALSE
    /\ \E seed \in Seeds : RunEffect(FALSE, CleanupPending, CleanupListeners, seed)
    /\ UNCHANGED <<now, framesAtNow, window, canvasOk, inputListeners, mounted,
                   pressStartTimeRef>>

----------------------------------------------------------------------------
(* Input.                                                                  *)

\* mousedown / touchstart on the window
handleMouseDown ==
    /\ inputListeners
    /\ isPressingRef' = TRUE
    /\ pressStartTimeRef' = now
    /\ UNCHANGED <<hostVars, isActive, phase, syncPercentage, animationRef,
                   startTimeRef, particlesRef>>

\* As handleMouseUp, forgetting when the press began.
handleMouseUp_ForgetsStamp ==
    /\ inputListeners
    /\ isPressingRef' = FALSE
    /\ pressStartTimeRef' = 0
    /\ UNCHANGED <<hostVars, isActive, phase, syncPercentage, animationRef,
                   startTimeRef, particlesRef>>

\* mouseup / touchend on the window
handleMouseUp ==
    /\ inputListeners
    /\ isPressingRef' = FALSE
    /\ UNCHANGED <<hostVars, isActive, phase, syncPercentage, animationRef,
                   startTimeRef, pressStartTimeRef, particlesRef>>

\* The window is resized to sz and its resize event runs the registered
\* resizeCanvas listeners.
Resize(sizes) ==
    /\ mounted
    /\ \E sz \in sizes, seed \in Seeds :
         /\ window' = sz
         /\ IF resizeListeners > 0
            THEN LET rc == resizeCanvas(sz, particlesRef, seed)
                 IN  /\ canvas' = rc[1]
                     /\ drawn' = <<>>
                     /\ particlesRef' = rc[2]
            ELSE UNCHANGED <<canvas, drawn, particlesRef>>
    /\ UNCHANGED <<now, framesAtNow, canvasOk, pendingFrames, resizeListeners,
                   inputListeners, mounted, isActive, phase, syncPercentage,
                   animationRef, startTimeRef, isPressingRef, pressStartTimeRef>>

----------------------------------------------------------------------------
(* The page: every event, window sizes up to MaxDim, a coarse clock and at  *)
(* most MaxFramesPerStep frames per reading of it.                         *)

Next ==
    \/ Mount
    \/ Frame(MaxFramesPerStep)
    \/ ClockTick(JumpSeconds * MsPerSecond, MaxJumps * JumpSeconds * MsPerSecond)
    \/ handleStart
    \/ handleReset
    \/ handleMouseDown
    \/ handleMouseUp
    \/ Resize(WindowSizes)

Spec == Init /\ [][Next]_vars

(* The page in a minimised window (0 x 0, where the backdrop stands still) *)
(* over more than a whole breathing cycle.                                 *)

InitCycle == InitOn(Minimised, {TRUE})

NextCycle ==
    \/ Mount
    \/ Frame(MaxFramesPerStep)
    \/ ClockTick(StepMs, LongTime * MsPerSecond)
    \/ handleStart
    \/ handleReset
    \/ handleMouseDown
    \/ handleMouseUp
    \/ Resize(Minimised)

SpecCycle == InitCycle /\ [][NextCycle]_vars

(* The page in a minimised window with frames closer together than the     *)
(* clock resolves: the clock only jumps by JumpSeconds seconds, and any     *)
(* number of frames run between two jumps.                                 *)

NextDense ==
    \/ Mount
    \/ DenseFrame
    \/ ClockTick(JumpSeconds * MsPerSecond, DenseJumps * JumpSeconds * MsPerSecond)
    \/ handleStart
    \/ handleReset
    \/ handleMouseDown
    \/ handleMouseUp
    \/ Resize(Minimised)

SpecDense == InitCycle /\ [][NextDense]_vars

(* The page watched without end and without pressing, in a minimised       *)
(* window.  The frame rate is at least the resolution of the clock: a new  *)
(* reading of the clock is taken only after a pending frame callback ran   *)
(* at the current one.  While no session runs the clock is followed for    *)
(* LiveIdle seconds, and sessions are started within that time.  While a   *)
(* session runs, the clock is followed for ever, and kept finite by        *)
(* folding: animate uses the timestamp only through                        *)
(* (timestamp - origin) % TOTAL_CYCLE (lines 115-116), so once a whole     *)
(* cycle has elapsed the reading is taken one cycle back.                  *)

LiveIdle == 2

LiveTick ==
    /\ pendingFrames # {} => framesAtNow > 0
    /\ isActive \/ now + StepMs <= LiveIdle * MsPerSecond
    /\ now' = IF isActive /\ startTimeRef # 0
                 /\ now + StepMs - startTimeRef >= Ms(TOTAL_CYCLE)
              THEN now + StepMs - Ms(TOTAL_CYCLE)
              ELSE now + StepMs
    /\ framesAtNow' = 0
    /\ UNCHANGED <<window, canvasOk, canvas, drawn, pendingFrames, resizeListeners,
                   inputListeners, mounted, compVars>>

LiveStart == now <= LiveIdle * MsPerSecond /\ handleStart

NextLive ==
    \/ Mount
    \/ Frame(MaxFramesPerStep)
    \/ LiveTick
    \/ LiveStart
    \/ handleReset
    \/ Resize(Minimised)

\* What enables Frame(MaxFramesPerStep): a callback is pending and the frames
\* of this reading of the clock are not used up.
FrameEnabled == pendingFrames # {} /\ framesAtNow < MaxFramesPerStep

\* The browser runs every requested frame callback, and time passes: weak
\* fairness of the frame step (written out, with FrameEnabled for its
\* enabling condition) and of the clock.
SpecLive ==
    /\ InitCycle
    /\ [][NextLive]_vars
    /\ ([]<>(~FrameEnabled) \/ []<><<Frame(MaxFramesPerStep)>>_vars)
    /\ WF_vars(LiveTick)

(* The page watched without pressing through Inhale and into Hold, on a    *)
(* clock of FineDiv readings a second, with or without a drawing surface,  *)
(* and taken off the page and put back.                                    *)

InitFine == InitOn(Minimised, BOOLEAN)

NextFine ==
    \/ Mount
    \/ Unmount
    \/ Frame(MaxFramesPerStep)
    \/ ClockTick(FineStepMs, FineSeconds * MsPerSecond)
    \/ handleStart
    \/ handleReset
    \/ Resize(Minimised)

SpecFine == InitFine /\ [][NextFine]_vars

----------------------------------------------------------------------------

(* Properties.                                                             *)

\* A step in which the browser ran a frame callback: the clock stands and
\* the count of frames at this reading changes.
FrameStep == now' = now /\ framesAtNow' # framesAtNow
\* A step of handleStart / handleReset: the only writers of isActive.
StartStep == ~isActive /\ isActive'
ResetStep == isActive /\ ~isActive'

InRange(x) == RLe(R(0), x) /\ RLe(x, FullScore)

\* C1: in every reachable state the sync score is at least 0 and at most 100.
C1_ScoreInRange == InRange(syncPercentage)

\* C1 witness: a running session whose score has been driven down to 0.
C1_ScoreAtZero == isActive /\ phase = "Rest" /\ syncPercentage = R(0)

\* C2: a step of handleReset, from whatever state, leaves the session
\* inactive with phase "Ready", score 100, the pressing flag cleared and the
\* elapsed-time origin unset.
C2_ResetRestores ==
    [][ResetStep => /\ ~isActive'
                    /\ phase' = "Ready"
                    /\ syncPercentage' = FullScore
                    /\ ~isPressingRef'
                    /\ startTimeRef' = 0]_vars

\* C2 witness: Reset is enabled in a state where every field it restores
\* differs from its reset value (running, exhaling, pressed, score below 100,
\* origin set).
C2_ResetFromDirtyState ==
    /\ isActive /\ isPressingRef /\ phase = "Exhale"
    /\ RLt(syncPercentage, FullScore) /\ startTimeRef # 0
    /\ ENABLED handleReset

\* C3: a step of handleStart sets the score to 100 and unsets the origin;
\* a frame of the running session that finds the origin unset (the first
\* frame after start) sets the origin to its timestamp, computes elapsed = 0
\* and reports "Inhale".
C3_StartBeginsAtInhale ==
    [][/\ StartStep => (syncPercentage' = FullScore /\ startTimeRef' = 0)
       /\ (FrameStep /\ isActive /\ startTimeRef = 0) =>
              /\ startTimeRef' = now
              /\ phase' = "Inhale"
              /\ drawn' # <<>>
              /\ drawn'[1].elapsed = R(0)
              /\ drawn'[1].currentPhase = "Inhale"]_vars

\* C3 witness: the first frame of a session started late (the clock is past
\* the inhale window) has just run.
C3_FirstFrameRan ==
    /\ isActive /\ drawn # <<>> /\ phase = "Inhale"
    /\ startTimeRef = now /\ RLe(CYCLE.inhale, Elapsed(now, 0))
    /\ drawn[1].elapsed = R(0)

\* C4: a frame of a running session with the pressing flag set makes the
\* score min(100, score + 0.1) if the phase it computes is Inhale or Hold and
\* max(0, score - 0.2) if it is Exhale or Rest; during Exhale a positive
\* score strictly decreases and a score of 0 stays 0.
C4_PressedFrameScore ==
    [][(FrameStep /\ isActive /\ isPressingRef) =>
         /\ phase' \in {"Inhale", "Hold", "Exhale", "Rest"}
         /\ phase' \in {"Inhale", "Hold"} =>
                syncPercentage' = RMin(FullScore, RAdd(syncPercentage, Frac(1, 10)))
         /\ phase' \in {"Exhale", "Rest"} =>
                syncPercentage' = RMax(R(0), RSub(syncPercentage, Frac(2, 10)))
         /\ phase' = "Exhale" =>
                /\ RGt(syncPercentage, R(0)) => RLt(syncPercentage', syncPercentage)
                /\ syncPercentage = R(0) => syncPercentage' = R(0)]_vars

\* C4 witness: pressing through Exhale has brought the score to 0, with a
\* frame just painted.
C4_PressedDownToZero ==
    /\ isActive /\ isPressingRef /\ phase = "Exhale" /\ drawn # <<>>
    /\ syncPercentage = R(0)

\* The scenario of C5 at its end: the press began 2 s after the session's
\* origin and is still held, the clock stands 1 s later, and the frame of
\* that reading has been painted.
C5_ScenarioEnd ==
    /\ isActive /\ isPressingRef /\ startTimeRef # 0
    /\ pressStartTimeRef = startTimeRef + 2 * MsPerSecond
    /\ now = startTimeRef + 3 * MsPerSecond
    /\ drawn # <<>> /\ drawn[1].elapsed = R(3)

\* The scenario of C5 at press-begin: a running session 2 s after its origin.
C5_AtPressBegin ==
    isActive /\ startTimeRef # 0 /\ now = startTimeRef + 2 * MsPerSecond

\* C5 as stated: after the second of pressing the score is greater than the
\* score at press-begin.  The score at press-begin is 100 in every run (the
\* first conjunct of C5_HeldAtFull: a session starts at 100 and only Inhale
\* frames come before t = 2 s), so the statement is that the score is then
\* greater than 100.
C5_ScoreIncreased == C5_ScenarioEnd => RGt(syncPercentage, FullScore)

\* C5 as amended: the score is 100 at press-begin and after the second of
\* pressing it is not less than that and does not exceed 100: it is 100.
C5_HeldAtFull ==
    /\ C5_AtPressBegin => syncPercentage = FullScore
    /\ C5_ScenarioEnd => (RLe(FullScore, syncPercentage) /\ RLe(syncPercentage, FullScore))

\* C5 witness: the end of the scenario, with frames painted at 2 s and 3 s.
C5_ScenarioReached == C5_ScenarioEnd /\ phase = "Inhale"

\* C6: a frame leaves the score unchanged when the pressing flag is not set
\* and when the session is inactive (pressing or not); an inactive frame also
\* leaves phase, origin and particles unchanged.
C6_IdleFrame ==
    [][FrameStep =>
         /\ (~isPressingRef \/ ~isActive) => syncPercentage' = syncPercentage
         /\ ~isActive => UNCHANGED <<phase, startTimeRef, particlesRef>>]_vars

\* C6 witness: a frame of a running session has been painted during Exhale
\* with the flag clear and the score below 100 (a lower score was left alone).
C6_UnpressedFramePainted ==
    /\ isActive /\ ~isPressingRef /\ drawn # <<>> /\ phase = "Exhale"
    /\ RLt(syncPercentage, FullScore)

\* The phase of the windows [0,4), [4,6), [6,12), [12,14) for a time in
\* milliseconds since the origin, reduced modulo the 14 s period.
WindowPhase(ms) ==
    LET c == ms % (14 * MsPerSecond)
    IN  IF c < 4 * MsPerSecond THEN "Inhale"
        ELSE IF c < 6 * MsPerSecond THEN "Hold"
        ELSE IF c < 12 * MsPerSecond THEN "Exhale"
        ELSE "Rest"

\* C7: the phase a frame of a running session reports is the phase of its
\* elapsed time modulo 14 s, whatever the rest of the state.
C7_PhaseOfElapsed ==
    [][(FrameStep /\ isActive) =>
         /\ phase' = WindowPhase(now - startTimeRef')
         /\ drawn' # <<>> /\ drawn'[1].currentPhase = phase']_vars

\* C7 witness: a frame painted a whole period after the origin (elapsed
\* 14 s, cycle time 0) reports Inhale again.
C7_SecondCycle ==
    /\ isActive /\ drawn # <<>> /\ drawn[1].elapsed = R(14) /\ phase = "Inhale"

\* C8: a frame whose cycle time is exactly 4 s reports Hold with scale 1.5,
\* exactly 6 s Exhale with scale 1.5, exactly 12 s Rest with scale 1.0.
C8_Boundaries ==
    [][(FrameStep /\ isActive) =>
         LET c == (now - startTimeRef') % (14 * MsPerSecond)
         IN  /\ c = 4 * MsPerSecond =>
                   phase' = "Hold" /\ drawn'[1].bubbleScale = Frac(3, 2)
             /\ c = 6 * MsPerSecond =>
                   phase' = "Exhale" /\ drawn'[1].bubbleScale = Frac(3, 2)
             /\ c = 12 * MsPerSecond =>
                   phase' = "Rest" /\ drawn'[1].bubbleScale = R(1)]_vars

\* C8 witness: a frame painted at cycle time exactly 6 s.
C8_AtExhaleBoundary ==
    /\ isActive /\ drawn # <<>> /\ drawn[1].cycleTime = R(6)
    /\ phase = "Exhale" /\ drawn[1].bubbleScale = Frac(3, 2)

\* C9 as stated, for surfaces of positive size: every particle satisfies
\* 0 <= x < width and 0 <= y < height.
C9_HalfOpenBounds ==
    (canvas.width > 0 /\ canvas.height > 0) =>
        \A i \in DOMAIN particlesRef :
            /\ RLe(R(0), particlesRef[i].x) /\ RLt(particlesRef[i].x, R(canvas.width))
            /\ RLe(R(0), particlesRef[i].y) /\ RLt(particlesRef[i].y, R(canvas.height))

\* C9 as amended: every particle has x >= 0 and y >= 0, and while the canvas
\* shows a painted frame (no resize since the last update step) also
\* x <= width and y <= height, the bounds included.
C9_ClosedBounds ==
    \A i \in DOMAIN particlesRef :
        /\ RLe(R(0), particlesRef[i].x) /\ RLe(R(0), particlesRef[i].y)
        /\ drawn # <<>> =>
              /\ RLe(particlesRef[i].x, R(canvas.width))
              /\ RLe(particlesRef[i].y, R(canvas.height))

\* C9 witness: on a painted surface of positive width a particle that left
\* on the low side sits exactly at x = width.
C9_ParticleAtWidth ==
    /\ drawn # <<>> /\ canvas.width > 0
    /\ \E i \in DOMAIN particlesRef : particlesRef[i].x = R(canvas.width)

\* What initParticles fixes for a particle: all but its position.
Identity(p) == <<p.vx, p.vy, p.size, p.color, p.alpha>>

\* C10: the count of particles is 0 or 30 in every state; the first sizing
\* of the surface (the mount of a component with a surface) creates 30;
\* from then on the count stays 30 and the set is never recreated: only a
\* frame changes the particles, and only their positions.
C10_OneParticleSet ==
    [][/\ Len(particlesRef) \in {0, 30} /\ Len(particlesRef') \in {0, 30}
       /\ (~mounted /\ mounted' /\ canvasOk) =>
             (Len(particlesRef) = 0 /\ Len(particlesRef') = 30)
       /\ Len(particlesRef) = 30 =>
             \/ particlesRef' = particlesRef
             \/ /\ FrameStep
                /\ Len(particlesRef') = 30
                /\ \A i \in 1..30 :
                      Identity(particlesRef'[i]) = Identity(particlesRef[i])]_vars

\* C10 witness: after frames that moved the particles and a reset that ran
\* the effect again the set is still the one created first (a particle sits
\* at x = width, where initParticles never puts one).
C10_SetSurvivesReset ==
    /\ mounted /\ ~isActive /\ now > 0 /\ Len(particlesRef) = 30
    /\ canvas.width > 0
    /\ \E i \in DOMAIN particlesRef : particlesRef[i].x = R(canvas.width)

\* The phase that follows p in the breathing cycle.
Successor(p) ==
    CASE p = "Inhale" -> "Hold"
      [] p = "Hold"   -> "Exhale"
      [] p = "Exhale" -> "Rest"
      [] OTHER        -> "Inhale"

\* The timestamp of the frame whose picture is on the canvas.
PaintedAt == startTimeRef + Ms(drawn[1].elapsed)
\* The shortest phase of the cycle, in milliseconds.
ShortestPhaseMs ==
    Ms(RMin(RMin(CYCLE.inhale, CYCLE.hold), RMin(CYCLE.exhale, CYCLE.rest)))
\* A frame of a running session that is not the session's first.
LaterFrameStep == FrameStep /\ isActive /\ phase # "Ready"

\* C11 as stated: whatever the timestamps of two consecutive frames of a
\* running session, the second reports the phase of the first or its
\* successor.
C11_NeverSkips ==
    [][LaterFrameStep => phase' \in {phase, Successor(phase)}]_vars

\* C11: the session changes between inactive and running only by start and
\* reset (never by a frame), and a frame that follows the painted one by at
\* most the length of the shortest phase reports the same phase or its
\* successor.
C11_SuccessorWithinShortestPhase ==
    [][/\ isActive' # isActive =>
             (~FrameStep /\ startTimeRef' = 0 /\ syncPercentage' = FullScore)
       /\ (LaterFrameStep /\ drawn # <<>> /\ now - PaintedAt <= ShortestPhaseMs) =>
             phase' \in {phase, Successor(phase)}]_vars

\* C11 witness: the frame at the first instant of Hold has been reported one
\* second after a frame of Inhale was.
C11_HoldReported ==
    /\ isActive /\ phase = "Hold" /\ framesAtNow = 1 /\ drawn # <<>>
    /\ drawn[1].elapsed = CYCLE.inhale

\* C12: with every requested frame run and time passing, a session that is
\* not reset reports each of the four phases again and again; in
\* particular Inhale is reported again after any phase.
C12_EveryPhaseRecurs ==
    \A p \in {"Inhale", "Hold", "Exhale", "Rest"} :
        [](isActive => <>(phase = p \/ ~isActive))

\* C12 witness: a running session reporting Rest in the last second of its
\* cycle, from where it goes on to Inhale.
C12_EndOfCycle ==
    /\ isActive /\ phase = "Rest" /\ drawn # <<>>
    /\ RAdd(drawn[1].cycleTime, R(1)) = TOTAL_CYCLE

\* The elapsed times of the Inhale window that the finest clock reads.
InhaleGrid ==
    {Frac(k, FineDiv) : k \in 0..((Ms(CYCLE.inhale) * FineDiv) \div MsPerSecond - 1)}

\* C13: the bubble scale painted at an elapsed time e in [0, 4) is
\* 1 + 0.5 * easeInOutCubic(e / 4), lies in [1, 1.5], is 1 at e = 0, is at
\* least the scale of every earlier elapsed time of the window and at most
\* that of every later one.
C13_InhaleScaleMonotone ==
    (drawn # <<>> /\ RLt(drawn[1].elapsed, CYCLE.inhale)) =>
        LET e == drawn[1].elapsed
            scale == drawn[1].bubbleScale
        IN  /\ scale = RAdd(R(1), RMul(Frac(1, 2),
                                       easeInOutCubic(RDiv(e, CYCLE.inhale))))
            /\ RLe(R(1), scale) /\ RLe(scale, Frac(3, 2))
            /\ e = R(0) => scale = R(1)
            /\ \A e1 \in InhaleGrid :
                  /\ RLe(e1, e) => RLe(FrameParams(e1).bubbleScale, scale)
                  /\ RLe(e, e1) => RLe(scale, FrameParams(e1).bubbleScale)

\* C13 witness: a frame painted in the second half of Inhale, where the
\* scale is strictly between its ends.
C13_LateInhalePainted ==
    /\ isActive /\ drawn # <<>> /\ drawn[1].currentPhase = "Inhale"
    /\ RLt(Frac(1, 2), RDiv(drawn[1].elapsed, CYCLE.inhale))
    /\ RLt(R(1), drawn[1].bubbleScale) /\ RLt(drawn[1].bubbleScale, Frac(3, 2))

\* One animation loop: a single frame callback is pending, it is the one
\* animationRef names, its closure saw the current isActive, and one resize
\* listener is registered.
OneLoop ==
    /\ Cardinality(pendingFrames) = 1
    /\ \A f \in pendingFrames : f.id = animationRef /\ f.active = isActive
    /\ resizeListeners = 1
\* Nothing of the component is registered with the browser.
NothingRegistered ==
    pendingFrames = {} /\ resizeListeners = 0 /\ ~inputListeners
LoopInvariant ==
    /\ (mounted /\ canvasOk) => OneLoop
    /\ ~mounted => NothingRegistered

\* C14: while the component is mounted with a drawing surface exactly one
\* frame callback is pending before and after every step (frame, start,
\* reset, resize), and it belongs to the current loop; off the page no frame
\* callback and no listener is registered; and a teardown that finds no
\* frame callback pending changes nothing else.
C14_SingleLoop ==
    [][/\ LoopInvariant
       /\ LoopInvariant'
       /\ (mounted /\ ~mounted' /\ pendingFrames = {}) =>
             UNCHANGED <<pendingFrames, resizeListeners, canvas, drawn, compVars>>]_vars

\* C14 witness: the component has been taken off the page in the middle of
\* a running session whose loop had run frames, and nothing is left.
C14_TornDownWhileRunning ==
    /\ ~mounted /\ canvasOk /\ isActive /\ startTimeRef # 0 /\ animationRef # 0
    /\ NothingRegistered

\* C15: whenever the session is inactive the phase is "Ready" and the score
\* is 100, and the only pending frame callback is one whose closure saw the
\* session inactive, which writes no phase, score or origin.
C15_InactiveIsReady ==
    ~isActive =>
        /\ phase = "Ready"
        /\ syncPercentage = FullScore
        /\ startTimeRef = 0
        /\ \A f \in pendingFrames : ~f.active

\* C15 witness: a session has run frames (a particle was carried to the
\* right edge), was pressed and was reset, the clock has moved on and a
\* frame of the idle loop has run since.
C15_IdleAfterReset ==
    /\ mounted /\ ~isActive /\ pressStartTimeRef > 0
    /\ now > pressStartTimeRef /\ framesAtNow > 0
    /\ canvas.width > 0
    /\ \E i \in DOMAIN particlesRef : particlesRef[i].x = R(canvas.width)

\* C16 as stated: the first frame of a running session assigns the origin,
\* no later frame of the session changes it, and the elapsed time painted
\* never decreases from one frame to the next, whatever the timestamp of the
\* first frame.
C16_OriginAssignedOnce ==
    [][/\ (FrameStep /\ isActive /\ phase = "Ready") => startTimeRef' = now
       /\ LaterFrameStep => startTimeRef' = startTimeRef
       /\ (LaterFrameStep /\ drawn # <<>>) =>
             RLe(drawn[1].elapsed, drawn'[1].elapsed)]_vars

\* What neither press-begin nor press-end touches.
PressLeaves ==
    UNCHANGED <<hostVars, isActive, phase, syncPercentage, animationRef,
                startTimeRef, particlesRef>>

\* C17: a step that begins a press (the flag rises, or a new press-start
\* timestamp is recorded) sets the flag and records the current time; a step
\* that ends a press outside a reset clears the flag and leaves the
\* timestamp; neither changes anything else, and only a reset clears the
\* press besides; the score changes only in a frame, a start or a reset.
C17_PressEvents ==
    [][/\ ((~isPressingRef /\ isPressingRef') \/ pressStartTimeRef' # pressStartTimeRef) =>
             (isPressingRef' /\ pressStartTimeRef' = now /\ PressLeaves)
       /\ (isPressingRef /\ ~isPressingRef') =>
             /\ pressStartTimeRef' = pressStartTimeRef
             /\ PressLeaves \/ ResetStep
       /\ syncPercentage' # syncPercentage =>
             (FrameStep \/ StartStep \/ ResetStep)]_vars

\* C17 witness: in a running session a press was begun after the clock had
\* moved and has been ended: the flag is down, the timestamp is kept.
C17_ReleasedKeepsStamp ==
    /\ isActive /\ ~isPressingRef /\ pressStartTimeRef > 0
    /\ phase # "Ready"

C19_NoSurfaceNoWork ==
    [][~canvasOk =>
          /\ pendingFrames = {} /\ pendingFrames' = {}
          /\ resizeListeners = 0 /\ resizeListeners' = 0
          /\ Len(particlesRef) = 0 /\ Len(particlesRef') = 0
          /\ drawn = <<>> /\ drawn' = <<>>
          /\ phase = "Ready" /\ phase' = "Ready"
          /\ syncPercentage = FullScore /\ syncPercentage' = FullScore
          /\ (mounted /\ mounted') => (ENABLED handleStart \/ ENABLED handleReset)
          /\ isActive' # isActive => startTimeRef' = 0]_vars

\* C19 witness: without a surface a session was started and is pressed,
\* and the clock has run to its end.
C19_StartedWithoutSurface ==
    /\ ~canvasOk /\ mounted /\ isActive /\ isPressingRef
    /\ now = MaxJumps * JumpSeconds * MsPerSecond

====
